---- MODULE Spec2Model ----
(***************************************************************************)
(* A model of the isbn package (isbn.go): the ISBN value type, Parse and   *)
(* Validate, the two checksum algorithms, the To10 / To13 conversions and  *)
(* the String / ToURN / Canonical renderers.                               *)
(*                                                                         *)
(* A Go string is modelled as a sequence of bytes (naturals below 128, so  *)
(* that one rune is one byte and len(s) is the number of characters).      *)
(* A *ISBN is either the record nil or a record with the four fields of    *)
(* the struct; an error is either nil or a record holding its message.     *)
(***************************************************************************)
EXTENDS Integers, Sequences, FiniteSets

VARIABLES
    s,       \* the text handed to Parse / Validate
    pc,      \* position of the caller: "input", "validated", "failed", "parsed", "paired",
             \* "observed", "reparsed"
    n,       \* the *ISBN the caller holds (nil before Parse and after a failed Parse)
    err,     \* the error returned by Parse(s)
    valid,   \* the boolean returned by Validate(s)
    orig,    \* the *ISBN that Parse(s) returned, kept to compare conversions against
    hist,    \* the conversions applied to orig so far, oldest first
    other,   \* a second *ISBN, parsed from another text (the operand of EquivalientTo)
    out,     \* the last value observed from n: [op, val]
    re       \* the result of parsing the rendered text again: [val, err]

vars == <<s, pc, n, err, valid, orig, hist, other, out, re>>

----------------------------------------------------------------------------
(* Bounds of the model.                                                    *)

\* the largest number of separator characters inserted into an input
MaxSeps == 8
\* the largest number of digits dropped from, or appended to, an input
MaxDelta == 1
\* the largest number of To10 / To13 conversions applied to a parsed value
MaxConv == 2

----------------------------------------------------------------------------
(* The value type and the package-level data.                              *)

nil == [nil |-> TRUE]

ISBN(is13, prefix, digits, checksum) ==
    [is13 |-> is13, prefix |-> prefix, digits |-> digits, checksum |-> checksum]

allowedISBN13Prefixes == << <<9, 7, 8>>, <<9, 7, 9>> >>

\* "urn:isbn:"
urnPrefix == <<117, 114, 110, 58, 105, 115, 98, 110, 58>>

Errorf(msg, arg) == [msg |-> msg, arg |-> arg]

ErrFormat == "Invalid ISBN format"

ErrDigitCount == "Invalid ISBN digit count"

ErrPrefix == "Unexpected ISBN-13 prefix: %s"

ErrCharacter == "Unexpected character in ISBN (X can only be the final digit of an ISBN-10)"

ErrChecksum == "ISBN checksum was incorrect"

----------------------------------------------------------------------------
(* Character conversions.                                                  *)

\* '0'..'9' -> 0..9, 'x' / 'X' -> 10, anything else -> -1 (dropped by strings.Map)
runeToISBNDigit(r) ==
    IF r >= 48 /\ r <= 57 THEN r - 48
    ELSE IF r = 120 \/ r = 88 THEN 10
    ELSE -1

isbnDigitToByte_noX(r) ==
    IF r >= 0 /\ r <= 10 THEN r + 48 ELSE -1

\* 0..9 -> '0'..'9', 10 -> 'X'; the panic is the result -1, which is no byte
isbnDigitToByte(r) ==
    IF r >= 0 /\ r <= 9 THEN r + 48
    ELSE IF r = 10 THEN 88
    ELSE -1

\* strings.HasPrefix
HasPrefix(t, p) == Len(t) >= Len(p) /\ SubSeq(t, 1, Len(p)) = p

\* strings.Map(runeToISBNDigit, t): the mapped runes, the negative ones dropped
MapDigits(t) ==
    SelectSeq([i \in 1..Len(t) |-> runeToISBNDigit(t[i])], LAMBDA d : d >= 0)

----------------------------------------------------------------------------
(* Checksums.                                                              *)

RECURSIVE SumTo(_, _)
\* f[1] + ... + f[k]
SumTo(f, k) == IF k = 0 THEN 0 ELSE f[k] + SumTo(f, k - 1)

check10_noZero(digits) ==
    LET sum == SumTo([j \in 1..9 |-> digits[j] * (10 - (j - 1))], 9)
        m   == sum % 11
    IN  11 - m

\* digit j of the array is the Go index i = j-1, of weight 10-i
check10(digits) ==
    LET sum == SumTo([j \in 1..9 |-> digits[j] * (10 - (j - 1))], 9)
        m   == sum % 11
    IN  IF m = 0 THEN 0 ELSE 11 - m

check13_swapped(prefix, digits) ==
    LET weight(i) == IF i % 2 = 0 THEN 1 ELSE 3
        sum == 1 * prefix[1] + 3 * prefix[2] + 1 * prefix[3]
               + SumTo([j \in 1..9 |-> digits[j] * weight(j - 1)], 9)
        m   == sum % 10
    IN  IF m = 0 THEN 0 ELSE 10 - m

check13(prefix, digits) ==
    LET weight(i) == IF i % 2 = 0 THEN 3 ELSE 1
        sum == 1 * prefix[1] + 3 * prefix[2] + 1 * prefix[3]
               + SumTo([j \in 1..9 |-> digits[j] * weight(j - 1)], 9)
        m   == sum % 10
    IN  IF m = 0 THEN 0 ELSE 10 - m

isAllowedPrefix(p) ==
    \E i \in 1..Len(allowedISBN13Prefixes) : p = allowedISBN13Prefixes[i]

isValid(v) ==
    IF v.is13 THEN check13(v.prefix, v.digits) = v.checksum
    ELSE check10(v.digits) = v.checksum

----------------------------------------------------------------------------
(* Parse and Validate.                                                     *)

TooLong_noSeparators(t) == Len(t) > 13

\* the length guard of Parse
TooLong(t) == Len(t) > 13 + 4

MisplacedX_only10(c, i, is13) == c = 10 /\ i # 9

\* the guard of the loop of Parse: c is the value at Go index i after the prefix
MisplacedX(c, i, is13) == c = 10 /\ (is13 \/ i # 9)

\* Parse(text), as the pair [val, err] it returns
Parse(text) ==
    LET t == IF HasPrefix(text, urnPrefix)
             THEN SubSeq(text, Len(urnPrefix) + 1, Len(text))
             ELSE text
    IN
    IF TooLong(t) THEN [val |-> nil, err |-> Errorf(ErrFormat, <<>>)]
    ELSE
    LET m    == MapDigits(t)
        is13 == Len(m) = 13
    IN
    IF Len(m) # 10 /\ ~is13
    THEN [val |-> nil, err |-> Errorf(ErrDigitCount, <<>>)]
    ELSE
    LET prefix == IF is13 THEN <<m[1], m[2], m[3]>> ELSE <<0, 0, 0>>
        offset == IF is13 THEN 3 ELSE 0
        rest   == SubSeq(m, offset + 1, Len(m))
    IN
    IF is13 /\ ~isAllowedPrefix(prefix)
    THEN [val |-> nil, err |-> Errorf(ErrPrefix, SubSeq(t, 1, 3))]
    ELSE IF \E i \in 0..9 : MisplacedX(rest[i + 1], i, is13)
    THEN [val |-> nil, err |-> Errorf(ErrCharacter, <<>>)]
    ELSE
    LET parsed == ISBN(is13, prefix, SubSeq(rest, 1, 9), rest[10])
    IN  IF ~isValid(parsed)
        THEN [val |-> nil, err |-> Errorf(ErrChecksum, <<>>)]
        ELSE [val |-> parsed, err |-> nil]

Validate(text) == Parse(text).err = nil

----------------------------------------------------------------------------
(* Conversions.                                                            *)

To10_dropPrefix(v) ==
    IF ~v.is13 THEN v
    ELSE ISBN(FALSE, <<0, 0, 0>>, v.digits, check10(v.digits))

To10_keepChecksum(v) ==
    IF ~v.is13 THEN v
    ELSE ISBN(FALSE, v.prefix, v.digits, v.checksum)

\* the prefix is kept, in case the value is converted back
To10(v) ==
    IF ~v.is13 THEN v
    ELSE ISBN(FALSE, v.prefix, v.digits, check10(v.digits))

To13_always978(v) ==
    IF v.is13 THEN v
    ELSE ISBN(TRUE, allowedISBN13Prefixes[1], v.digits,
              check13(allowedISBN13Prefixes[1], v.digits))

To13_noFallback(v) ==
    IF v.is13 THEN v
    ELSE ISBN(TRUE, v.prefix, v.digits, check13(v.prefix, v.digits))

To13(v) ==
    IF v.is13 THEN v
    ELSE LET prefix == IF ~isAllowedPrefix(v.prefix)
                       THEN allowedISBN13Prefixes[1]
                       ELSE v.prefix
         IN  ISBN(TRUE, prefix, v.digits, check13(prefix, v.digits))

Is13(v) == v.is13

Is10(v) == ~v.is13

----------------------------------------------------------------------------
(* Rendering and equivalence.                                              *)

\* the rendered bytes; <<-1>> stands for the panic of isbnDigitToByte
String(v) ==
    LET base == [i \in 1..10 |-> IF i = 10 THEN isbnDigitToByte(v.checksum)
                                           ELSE isbnDigitToByte(v.digits[i])]
        pre  == [i \in 1..3 |-> isbnDigitToByte(v.prefix[i])]
    IN  IF \E i \in 1..10 : base[i] < 0 THEN <<-1>>
        ELSE IF v.is13
             THEN IF \E i \in 1..3 : pre[i] < 0 THEN <<-1>>
                  ELSE pre \o <<45>> \o base
             ELSE base

\* a.EquivalientTo(b): only the nine digits are compared
EquivalientTo(a, b) ==
    IF b = nil \/ a = nil THEN FALSE
    ELSE \A i \in 1..9 : a.digits[i] = b.digits[i]

ToURN(v) ==
    LET str == String(v) IN IF str = <<-1>> THEN str ELSE urnPrefix \o str

Canonical(v) == ToURN(To13(v))

----------------------------------------------------------------------------
(* The texts the caller hands to Parse and Validate.                       *)

\* the nine body digits of the books of the package's tests
BaseBodies ==
    { <<0, 8, 3, 6, 2, 2, 0, 8, 8>>,      \* 0836220889 / 9780836220889
      <<0, 8, 0, 4, 4, 2, 9, 5, 7>>,      \* 080442957X / 9780804429573
      <<5, 0, 0, 0, 0, 0, 0, 2, 3>> }     \* 979-5000000235

\* the bodies above with one digit replaced
VarBodies ==
    { [b EXCEPT ![i] = d] : b \in BaseBodies, i \in {1, 2, 9}, d \in 0..9 }

\* digit values as characters, the value 10 written as the character x
Render(m, x) == [i \in 1..Len(m) |-> IF m[i] = 10 THEN x ELSE m[i] + 48]

RECURSIVE Interleave(_, _, _, _)
\* t from index i on, with the character sep after every index of at
Interleave(t, i, at, sep) ==
    IF i > Len(t) THEN <<>>
    ELSE <<t[i]>> \o (IF i \in at THEN <<sep>> ELSE <<>>) \o Interleave(t, i + 1, at, sep)

\* the ten values after the prefix, with an X put at index xpos (0: nowhere)
PutX(body10, xpos) == [i \in 1..10 |-> IF i = xpos THEN 10 ELSE body10[i]]

\* m with d digits dropped from (d < 0) or d zeros appended to (d > 0) its end
Resize(m, d) ==
    IF d <= 0 THEN SubSeq(m, 1, Len(m) + d)
    ELSE m \o [i \in 1..d |-> 0]

\* plain texts: every body, every prefix, every check digit 0..9 and X
ChecksumInputs ==
    { Render(pre \o b \o <<c>>, 88) :
        pre \in {<<>>, <<9, 7, 8>>, <<9, 7, 9>>}, b \in VarBodies, c \in 0..10 }

\* texts of the test books: with a good or a bad prefix (977, 97X), the check
\* digit that is right for the digits written, an X put somewhere, a digit too
\* few or too many, separators after the characters from..from+k-1, the urn prefix
FormatInputs ==
    { (IF urn THEN urnPrefix ELSE <<>>) \o
      Interleave(Render(Resize(pre \o PutX(b \o <<IF pre = <<>> THEN check10(b)
                                                   ELSE check13(<<9, 7, pre[3] % 10>>, b)>>,
                                            xpos), d), x),
                 1, from..(from + k - 1), sep) :
        urn \in BOOLEAN,
        pre \in {<<>>, <<9, 7, 8>>, <<9, 7, 9>>, <<9, 7, 7>>, <<9, 7, 10>>},
        b \in BaseBodies,
        xpos \in {0, 1, 5, 10},
        d \in (0 - MaxDelta)..MaxDelta,
        x \in {88, 120},
        from \in {1, 4},
        k \in 0..MaxSeps,
        sep \in {45, 32} }

Inputs == ChecksumInputs \cup FormatInputs

\* the texts of the second operand: "9780836220889", "9780804429573",
\* "979-5000000235", "5000000234", "080442957X", "badformat!"
OtherInputs ==
    { Render(<<9, 7, 8, 0, 8, 3, 6, 2, 2, 0, 8, 8, 9>>, 88),
      Render(<<9, 7, 8, 0, 8, 0, 4, 4, 2, 9, 5, 7, 3>>, 88),
      Interleave(Render(<<9, 7, 9, 5, 0, 0, 0, 0, 0, 0, 2, 3, 5>>, 88), 1, {3}, 45),
      Render(<<5, 0, 0, 0, 0, 0, 0, 2, 3, 4>>, 88),
      Render(<<0, 8, 0, 4, 4, 2, 9, 5, 7, 10>>, 88),
      <<98, 97, 100, 102, 111, 114, 109, 97, 116, 33>> }

----------------------------------------------------------------------------
(* The state machine: a caller that validates or parses a text, converts   *)
(* the value, observes it and parses the rendered text again.              *)

NoOut == [op |-> "none", val |-> <<>>]

NoRe == [val |-> nil, err |-> nil]

Init ==
    /\ s \in Inputs
    /\ pc = "input"
    /\ n = nil
    /\ err = nil
    /\ valid = FALSE
    /\ orig = nil
    /\ hist = <<>>
    /\ other = nil
    /\ out = NoOut
    /\ re = NoRe

\* valid := Validate(s)
DoValidate ==
    /\ pc = "input"
    /\ valid' = Validate(s)
    /\ pc' = "validated"
    /\ UNCHANGED <<s, n, err, orig, hist, other, out, re>>

\* n, err := Parse(s)
DoParse ==
    /\ pc = "input"
    /\ LET r == Parse(s)
       IN  /\ n' = r.val
           /\ err' = r.err
           /\ orig' = r.val
           /\ pc' = IF r.err = nil THEN "parsed" ELSE "failed"
    /\ UNCHANGED <<s, valid, hist, other, out, re>>

\* other, _ := Parse(t), for the text t of a second operand
DoParseOther ==
    /\ pc = "parsed"
    /\ hist = <<>>
    /\ \E t \in OtherInputs : other' = Parse(t).val
    /\ pc' = "paired"
    /\ UNCHANGED <<s, n, err, valid, orig, hist, out, re>>

\* n = n.To10()
DoTo10 ==
    /\ pc = "parsed"
    /\ Len(hist) < MaxConv
    /\ n' = To10(n)
    /\ hist' = Append(hist, "To10")
    /\ UNCHANGED <<s, pc, err, valid, orig, other, out, re>>

\* n = n.To13()
DoTo13 ==
    /\ pc = "parsed"
    /\ Len(hist) < MaxConv
    /\ n' = To13(n)
    /\ hist' = Append(hist, "To13")
    /\ UNCHANGED <<s, pc, err, valid, orig, other, out, re>>

Observe(op, val) ==
    /\ pc = "parsed"
    /\ out' = [op |-> op, val |-> val]
    /\ pc' = "observed"
    /\ UNCHANGED <<s, n, err, valid, orig, hist, other, re>>

DoString == Observe("String", String(n))

DoToURN == Observe("ToURN", ToURN(n))

DoCanonical == Observe("Canonical", Canonical(n))

DoIs13 == Observe("Is13", Is13(n))

DoIs10 == Observe("Is10", Is10(n))

\* n.EquivalientTo(other); other is nil when its text did not parse
DoEquivalientTo ==
    /\ pc = "paired"
    /\ out' = [op |-> "EquivalientTo", val |-> EquivalientTo(n, other)]
    /\ pc' = "observed"
    /\ UNCHANGED <<s, n, err, valid, orig, hist, other, re>>

\* re := Parse(out) for a rendered text
DoReparse ==
    /\ pc = "observed"
    /\ out.op \in {"String", "ToURN", "Canonical"}
    /\ re' = Parse(out.val)
    /\ pc' = "reparsed"
    /\ UNCHANGED <<s, n, err, valid, orig, hist, other, out>>

Next ==
    \/ DoValidate
    \/ DoParse
    \/ DoParseOther
    \/ DoTo10
    \/ DoTo13
    \/ DoString
    \/ DoToURN
    \/ DoCanonical
    \/ DoIs13
    \/ DoIs10
    \/ DoEquivalientTo
    \/ DoReparse

Spec == Init /\ [][Next]_vars

----------------------------------------------------------------------------
(* Vocabulary of the properties, stated on the text and not through Parse. *)

\* the text without a leading urn:isbn:
Stripped(text) ==
    IF Len(text) >= 9 /\ SubSeq(text, 1, 9) = urnPrefix
    THEN SubSeq(text, 10, Len(text)) ELSE text

\* the digit values that survive, X counting as 10
Values(text) == MapDigits(Stripped(text))

\* the number of characters of the stripped text that are no digit and no X
Extras(text) == Len(Stripped(text)) - Len(Values(text))

\* the ISBN-10 sum: weights 10, 9, ..., 1 over ten values
WSum10(m) == SumTo([i \in 1..10 |-> m[i] * (11 - i)], 10)

\* the ISBN-13 sum: weights 1, 3, 1, 3, ..., 1 over thirteen values
WSum13(m) == SumTo([i \in 1..13 |-> m[i] * (IF i % 2 = 1 THEN 1 ELSE 3)], 13)

Is978or979(m) == m[1] = 9 /\ m[2] = 7 /\ m[3] \in {8, 9}

\* an X anywhere but in the last place of a 10-long sequence
HasMisplacedX(m) ==
    \E i \in 1..Len(m) : m[i] = 10 /\ ~(Len(m) = 10 /\ i = 10)

\* the digits of a valid ISBN-10 or ISBN-13
IsISBNDigits(m) ==
    \/ Len(m) = 10 /\ ~HasMisplacedX(m) /\ WSum10(m) % 11 = 0
    \/ Len(m) = 13 /\ ~HasMisplacedX(m) /\ Is978or979(m) /\ WSum13(m) % 10 = 0

\* Parse(s) has returned
Returned == pc \notin {"input", "validated"}

\* the caller holds a value
Holds == pc \in {"parsed", "paired", "observed", "reparsed"}

\* the message of the first of the five checks that text fails, "" if none
ExpectedErr(text) ==
    LET m == Values(text)
    IN  IF Len(Stripped(text)) > 17 THEN ErrFormat
        ELSE IF Len(m) \notin {10, 13} THEN ErrDigitCount
        ELSE IF Len(m) = 13 /\ ~Is978or979(m) THEN ErrPrefix
        ELSE IF HasMisplacedX(m) THEN ErrCharacter
        ELSE IF Len(m) = 10 /\ WSum10(m) % 11 # 0 THEN ErrChecksum
        ELSE IF Len(m) = 13 /\ WSum13(m) % 10 # 0 THEN ErrChecksum
        ELSE ""

ErrMsg(e) == IF e = nil THEN "" ELSE e.msg

\* the validity of a value: digits, prefix and checksum as its form requires
ValidValue(v) ==
    /\ Len(v.digits) = 9
    /\ \A i \in 1..9 : v.digits[i] \in 0..9
    /\ v.is13 => /\ v.prefix \in {<<9, 7, 8>>, <<9, 7, 9>>}
                 /\ v.checksum = check13(v.prefix, v.digits)
                 /\ v.checksum \in 0..9
    /\ ~v.is13 => /\ v.checksum = check10(v.digits)
                  /\ v.checksum \in 0..10

NoPanic(v) ==
    /\ String(v) # <<-1>>
    /\ ToURN(v) # <<-1>>
    /\ Canonical(v) # <<-1>>

----------------------------------------------------------------------------
(* The properties.                                                         *)

\* C1: an ISBN-13 returned by Parse, converted To10 and then To13, has the
\* prefix, the nine digits and the checksum it had, and the same String.
C1_Lossless13 ==
    (Holds /\ orig.is13 /\ hist = <<"To10", "To13">>) =>
        /\ n.is13
        /\ n.prefix = orig.prefix
        /\ n.digits = orig.digits
        /\ n.checksum = orig.checksum
        /\ String(n) = String(orig)

\* C1 witness: a parsed 979 ISBN-13 has gone through To10 and To13 and has 979.
C1_Witness ==
    /\ Holds /\ orig.is13 /\ hist = <<"To10", "To13">>
    /\ orig.prefix = <<9, 7, 9>> /\ n.prefix = <<9, 7, 9>>

\* C2 as stated: after To13 then To10, and after To10 then To13, the value has
\* the nine digits and the checksum of the value Parse returned.
C2_RoundTripAsStated ==
    (Holds /\ hist \in {<<"To13", "To10">>, <<"To10", "To13">>}) =>
        /\ n.digits = orig.digits
        /\ n.checksum = orig.checksum

\* C2 amended: both round trips reproduce the nine digits; the checksum is
\* reproduced by the round trip that ends in the form of the parsed value
\* (To13 then To10 of an ISBN-10, To10 then To13 of an ISBN-13), and the other
\* one ends in the other form with the check digit of that form.
C2_RoundTrip ==
    (Holds /\ hist \in {<<"To13", "To10">>, <<"To10", "To13">>}) =>
        /\ n.digits = orig.digits
        /\ n.is13 = (hist[2] = "To13")
        /\ n.is13 = orig.is13 => n.checksum = orig.checksum
        /\ n.is13 # orig.is13 =>
               \/ n.is13 /\ WSum13(n.prefix \o n.digits \o <<n.checksum>>) % 10 = 0
               \/ ~n.is13 /\ WSum10(n.digits \o <<n.checksum>>) % 11 = 0

\* C2 witness: an ISBN-10 with check digit X has gone through To13 and To10,
\* through a 13-form whose check digit is another one.
C2_Witness ==
    /\ Holds /\ ~orig.is13 /\ orig.checksum = 10
    /\ hist = <<"To13", "To10">> /\ n.checksum = 10
    /\ To13(orig).checksum # 10

\* C3: the canonical form is the same before and after every conversion:
\* Canonical(v) = Canonical(To10(v)) = Canonical(To13(v)) for every value v
\* reached from Parse by conversions, and it is that of the parsed value.
C3_CanonicalStable ==
    Holds =>
        /\ Canonical(n) = Canonical(To10(n))
        /\ Canonical(n) = Canonical(To13(n))
        /\ Canonical(n) = Canonical(orig)

\* C3 witness: a parsed 979 ISBN-13 converted To10, whose canonical form
\* still carries 979.
C3_Witness ==
    /\ Holds /\ orig.is13 /\ orig.prefix = <<9, 7, 9>> /\ hist = <<"To10">>
    /\ ~n.is13 /\ SubSeq(Canonical(n), 10, 12) = <<57, 55, 57>>

\* C4: for a text of at most 17 characters after stripping, ten values with no
\* X before the last are accepted iff their 10..1 weighted sum is divisible by
\* 11, and thirteen values in 0..9 with prefix 978 or 979 are accepted iff
\* their 1,3,...,1 weighted sum is divisible by 10.
C4_CheckDigit ==
    LET m == Values(s)
    IN  (Returned /\ Len(Stripped(s)) <= 17) =>
            /\ (Len(m) = 10 /\ \A i \in 1..9 : m[i] # 10) =>
                   (err = nil <=> WSum10(m) % 11 = 0)
            /\ (Len(m) = 13 /\ (\A i \in 1..13 : m[i] \in 0..9) /\ Is978or979(m)) =>
                   (err = nil <=> WSum13(m) % 10 = 0)

\* C4 witness: thirteen digits with a good prefix whose 13-sum is not
\* divisible by 10 while the 10-sum of the last ten is divisible by 11 have
\* been rejected for their checksum.
C4_Witness ==
    LET m == Values(s)
    IN  /\ pc = "failed" /\ err.msg = ErrChecksum
        /\ Len(m) = 13
        /\ WSum13(m) % 10 # 0
        /\ WSum10(SubSeq(m, 4, 13)) % 11 = 0

\* C5 as stated: the digits of a valid ISBN-10 or ISBN-13 with separators
\* (hyphens, spaces) among them are accepted when there are at most 4
\* separators and rejected when there are 5 or more.
C5_SeparatorBound ==
    (Returned /\ IsISBNDigits(Values(s))) =>
        (err = nil <=> Extras(s) <= 4)

\* C6 as stated: a sequence of 10 or 13 values with an X anywhere but in the
\* last place of a 10-long one is rejected with the error about the X.
C6_MisplacedXAsStated ==
    LET m == Values(s)
    IN  (Returned /\ Len(Stripped(s)) <= 17 /\ Len(m) \in {10, 13} /\ HasMisplacedX(m)) =>
            /\ err # nil
            /\ ErrMsg(err) = ErrCharacter

\* C6 amended: such a sequence is rejected; the error is the one about the X
\* unless the sequence is 13 long and its first three values are not 978 or
\* 979 (as when the X is in the prefix), and then it is the prefix error.
C6_MisplacedX ==
    LET m == Values(s)
    IN  (Returned /\ Len(Stripped(s)) <= 17 /\ Len(m) \in {10, 13} /\ HasMisplacedX(m)) =>
            /\ err # nil
            /\ n = nil
            /\ ErrMsg(err) = IF Len(m) = 13 /\ ~Is978or979(m) THEN ErrPrefix
                             ELSE ErrCharacter

\* C6 witness: thirteen values with a good prefix and an X as the last one
\* have been rejected with the error about the X.
C6_Witness ==
    LET m == Values(s)
    IN  /\ pc = "failed" /\ Len(m) = 13 /\ Is978or979(m)
        /\ m[13] = 10 /\ (\A i \in 1..12 : m[i] # 10)
        /\ err.msg = ErrCharacter

\* C7: the String and the URN of every value reached from Parse by
\* conversions parse without error, to a value with the same String.
C7_PrintParse ==
    (pc = "reparsed" /\ out.op \in {"String", "ToURN"}) =>
        /\ out.val = IF out.op = "String" THEN String(n) ELSE ToURN(n)
        /\ re.err = nil
        /\ re.val # nil
        /\ String(re.val) = String(n)

\* C7 witness: the URN of an ISBN-10 with check digit X, obtained by To10
\* from a parsed ISBN-13, has been parsed again.
C7_Witness ==
    /\ pc = "reparsed" /\ out.op = "ToURN"
    /\ orig.is13 /\ hist = <<"To10">> /\ n.checksum = 10
    /\ re.err = nil

\* C8 as stated: a parsed ISBN-10 a and a parsed ISBN-13 b that are
\* equivalent have the same Canonical, a.String() = b.To10().String() and
\* b.String() = a.To13().String().
C8_FormsAgreeAsStated ==
    (Holds /\ other # nil /\ orig.is13 # other.is13 /\ EquivalientTo(orig, other)) =>
        LET a == IF orig.is13 THEN other ELSE orig
            b == IF orig.is13 THEN orig ELSE other
        IN  /\ Canonical(a) = Canonical(b)
            /\ String(a) = String(To10(b))
            /\ String(b) = String(To13(a))

\* C8 amended: the three equalities hold when the prefix of b is 978; when it
\* is 979 only a.String() = b.To10().String() holds.
C8_FormsAgree ==
    (Holds /\ other # nil /\ orig.is13 # other.is13 /\ EquivalientTo(orig, other)) =>
        LET a == IF orig.is13 THEN other ELSE orig
            b == IF orig.is13 THEN orig ELSE other
        IN  /\ String(a) = String(To10(b))
            /\ b.prefix = <<9, 7, 8>> =>
                   /\ Canonical(a) = Canonical(b)
                   /\ String(b) = String(To13(a))
            /\ b.prefix = <<9, 7, 9>> =>
                   /\ Canonical(a) # Canonical(b)
                   /\ String(b) # String(To13(a))

\* C8 witness: a parsed ISBN-10 and the parsed 978 ISBN-13 of the same nine
\* digits, whose check digits differ.
C8_Witness ==
    /\ Holds /\ other # nil /\ ~orig.is13 /\ other.is13
    /\ EquivalientTo(orig, other)
    /\ other.prefix = <<9, 7, 8>> /\ orig.checksum # other.checksum

\* C9: every value reached from a successful Parse by conversions has nine
\* digits in 0..9, as an ISBN-13 the prefix 978 or 979 and the checksum
\* check13(prefix, digits) in 0..9, as an ISBN-10 the checksum check10(digits)
\* in 0..10; String, ToURN and Canonical do not panic on it.
C9_ValidValue ==
    /\ Holds => ValidValue(n) /\ NoPanic(n) /\ ValidValue(orig)
    /\ other # nil => ValidValue(other) /\ NoPanic(other)
    /\ re.val # nil => ValidValue(re.val) /\ NoPanic(re.val)
    /\ pc = "observed" /\ out.op \in {"String", "ToURN", "Canonical"} =>
           \A i \in 1..Len(out.val) : out.val[i] >= 0

\* C9 witness: an ISBN-10 obtained by To10 from a parsed ISBN-13, whose check
\* digit is 0, has been rendered.
C9_Witness ==
    /\ pc = "observed" /\ out.op = "String"
    /\ orig.is13 /\ hist = <<"To10">> /\ n.checksum = 0

\* C10: Parse reports the first failing check of: length over 17, digit count
\* not 10 or 13, prefix not 978 or 979, misplaced X, wrong check digit; it
\* returns no value with an error; Validate is true iff no check fails.
C10_CheckOrder ==
    /\ Returned => /\ ErrMsg(err) = ExpectedErr(s)
                   /\ err # nil => orig = nil /\ pc = "failed"
                   /\ err = nil => orig # nil
    /\ pc = "validated" => valid = (ExpectedErr(s) = "")

\* C10 witness: a text of more than 17 characters whose digit count is wrong
\* as well has been rejected with the format error.
C10_Witness ==
    /\ pc = "failed" /\ err.msg = ErrFormat
    /\ Len(Stripped(s)) > 17 /\ Len(Values(s)) \notin {10, 13}

====
